---- MODULE Spec2Model ----
(***************************************************************************)
(* CircularLinkedList<T> (src/circular_list.h): a circular singly linked   *)
(* list.  The heap of Element objects is modelled by the functions value   *)
(* and next_element over a bounded set of addresses; a list object is its  *)
(* two members head and list_size; an iterator is the record of its three  *)
(* members element, head_ptr and isEnd.                                    *)
(***************************************************************************)
EXTENDS Integers, Sequences, FiniteSets, TLC

\* ---------------------------------------------------------------- bounds
MaxNodes == 3       \* addresses the allocator can hand out (new fails beyond)
MaxVal == 2         \* element values are 1..MaxVal
MaxLen == 3         \* longest list compared by operator== in SpecEq
MaxEqVal == 3       \* the lists compared in SpecEq hold values 1..MaxEqVal
MaxCalls == 4       \* SpecCount makes at most MaxCalls push_front calls

\* ------------------------------------------------------------- constants
NULL == 0           \* nullptr

Nodes == 1..MaxNodes
Values == 1..MaxVal
Rings == {"this", "other"}

VARIABLES
    value,          \* Element::value, by address
    next_element,   \* Element::next_element, by address
    live,           \* addresses of the Elements that exist (new'ed, not deleted)
    arena,          \* the addresses new can return; fixed at construction
    made,           \* the list objects that have been constructed
    head,           \* CircularLinkedList::head, by list object
    list_size,      \* CircularLinkedList::list_size, by list object
    it,             \* an iterator object held by the caller
    stale,          \* TRUE iff the Element it.element points to has been deleted
    ret,            \* what the last call returned (an iterator, a value, a bool)
    op,             \* the last call: its name and its arguments
    receiver,       \* the list object (this) of the last member-function call
    err,            \* how the last call ended: "ok" or the exception thrown
    pass,           \* ++ calls since it = begin() with no mutation between, or -1
    pushed,         \* values pushed, newest first, while only push_front ran
    out,            \* what operator== returned
    calls,          \* by list object, while counted: how many push_front
                    \* and pop_front calls on it have succeeded
    ub              \* TRUE once a deleted Element has been dereferenced

vars == <<value, next_element, live, arena, made, head, list_size, it, stale, ret,
          op, receiver, err, pass, pushed, out, calls, ub>>

heap == <<value, next_element, live>>
ring == <<head, list_size>>

\* ------------------------------------------------------------- iterators
\* iterator(Element* elem, Element* head, bool end)
iterator(elem, h, e) == [element |-> elem, head_ptr |-> h, isEnd |-> e]

\* CircularLinkedList::begin()
begin(r) == iterator(head[r], head[r], FALSE)

\* CircularLinkedList::end()
end(r) == iterator(head[r], head[r], TRUE)

\* iterator::operator==
iterator_eq(a, b) == a.element = b.element /\ a.isEnd = b.isEnd

\* (mutant: only !element is tested)
invalid_only(i) == i.element = NULL

\* the test !element || isEnd of operator*, operator->, operator++, insert_after
invalid_or_end(i) == i.element = NULL \/ i.isEnd

\* (mutant: if (element == head_ptr) isEnd = true is left out)
increment_no_end(i) ==
    iterator(next_element[i.element], i.head_ptr, i.isEnd)

\* iterator::operator++ on a valid position: the iterator it becomes
increment(i) ==
    LET e == next_element[i.element]
    IN  iterator(e, i.head_ptr, IF e = i.head_ptr THEN TRUE ELSE i.isEnd)

\* CircularLinkedList::empty()
empty(r) == head[r] = NULL

\* CircularLinkedList::size()
size(r) == list_size[r]

\* ------------------------------------------------------------ exceptions
\* std::out_of_range("List is empty")
EmptyContainer == "out_of_range: List is empty"
\* std::out_of_range("Advancing invalid iterator")
InvalidAdvance == "out_of_range: Advancing invalid iterator"
\* std::out_of_range("Dereferencing invalid iterator")
InvalidDereference == "out_of_range: Dereferencing invalid iterator"
\* std::invalid_argument(...)
InvalidIterator == "invalid_argument"

\* iterator::operator*: the exception or the value referenced
deref(i) ==
    IF invalid_or_end(i)
    THEN [err |-> InvalidDereference, val |-> NULL]
    ELSE [err |-> "ok", val |-> value[i.element]]

\* j calls of operator++ in a row on iterator i, up to the first that throws:
\* how they end and the iterator they leave
RECURSIVE advanced(_, _)
advanced(i, j) ==
    IF j = 0 THEN [err |-> "ok", it |-> i]
    ELSE IF invalid_or_end(i) THEN [err |-> InvalidAdvance, it |-> i]
    ELSE advanced(increment(i), j - 1)

\* (mutant: the test of head is left out)
front_unchecked(r) ==
    [err |-> "ok", val |-> IF head[r] = NULL THEN NULL ELSE value[head[r]]]

\* CircularLinkedList::front()
front(r) ==
    IF head[r] = NULL
    THEN [err |-> EmptyContainer, val |-> NULL]
    ELSE [err |-> "ok", val |-> value[head[r]]]

\* ------------------------------------------------------------- the heap
call(name, arg) == [name |-> name, arg |-> arg]

NoIterator == iterator(NULL, NULL, FALSE)
NoHistory == [ok |-> FALSE, seq |-> <<>>]

\* the count of calls of a list whose calls are not counted (any more)
Uncounted == [on |-> FALSE, pushes |-> 0, pops |-> 0]
counted_push(c) == IF c.on THEN [c EXCEPT !.pushes = @ + 1] ELSE c
counted_pop(c) == IF c.on THEN [c EXCEPT !.pops = @ + 1] ELSE c

\* delete: the Elements in the set d stop existing.  What a deleted Element
\* holds cannot be read without undefined behaviour; it is recorded as NULL.
delete(f, d) == [n \in DOMAIN f |-> IF n \in d THEN NULL ELSE f[n]]

\* the caller's iterator goes stale when the Element it references is deleted
stale_after(d) == stale \/ it.element \in d

\* a call that throws: nothing but the record of the call changes
throws(name, arg, e) ==
    /\ op' = call(name, arg)
    /\ err' = e
    /\ ret' = NoIterator
    /\ UNCHANGED <<heap, arena, made, ring, it, stale, pass, pushed, out, calls, ub>>

\* a call that dereferences a deleted Element: undefined behaviour.  Nothing
\* is claimed of the program from here on; the run stops.
undefined(name, arg) ==
    /\ op' = call(name, arg)
    /\ ub' = TRUE
    /\ UNCHANGED <<heap, arena, made, ring, it, stale, ret, err, pass, pushed, out,
                   calls>>

\* ------------------------------------------------------------ observers
\* the values met on k links from Element n, n's own first
RECURSIVE walk(_, _)
walk(n, k) ==
    IF k = 0 THEN <<>> ELSE <<value[n]>> \o walk(next_element[n], k - 1)

\* the addresses met on k links from Element n, n's own first; the walk
\* stops at a null link
RECURSIVE path(_, _)
path(n, k) ==
    IF k = 0 \/ n = NULL THEN <<>>
    ELSE <<n>> \o path(next_element[n], k - 1)

\* the value sequence of list r read from its head
sequence(r) == walk(head[r], list_size[r])

\* for (auto it = list.begin(); it != list.end(); ++it) results.push_back(*it);
\* the values collected, and how the loop ended (fuel bounds a loop that
\* would not end)
RECURSIVE loop(_, _, _, _)
loop(i, r, results, fuel) ==
    IF ~(~iterator_eq(i, end(r)))
    THEN [err |-> "ok", seq |-> results]
    ELSE IF deref(i).err # "ok"
    THEN [err |-> deref(i).err, seq |-> results]
    ELSE IF fuel = 0
    THEN [err |-> "endless", seq |-> results]
    ELSE loop(increment(i), r, Append(results, deref(i).val), fuel - 1)

traverse(r) == loop(begin(r), r, <<>>, Cardinality(live))

\* the iteration sequence of list r: what the loop collects, an empty list
\* having none
contents(r) == IF empty(r) THEN <<>> ELSE traverse(r).seq

\* ------------------------------------------------------------ operator==
\* the inner loop of operator==: for (j = 1; j < list_size; ++j)
RECURSIVE is_match(_, _, _, _)
is_match(this_temp, other_temp, j, n) ==
    IF ~(j < n) THEN TRUE
    ELSE IF value[this_temp] # value[other_temp] THEN FALSE
    ELSE is_match(next_element[this_temp], next_element[other_temp], j + 1, n)

\* (mutant: only the alignment of the two heads is tried)
alignments_heads_only(this_current, other_current, i, n) ==
    /\ value[this_current] = value[other_current]
    /\ is_match(next_element[this_current], next_element[other_current], 1, n)

\* the outer loop of operator==: for (i = 0; i < list_size; ++i); only
\* other_current moves
RECURSIVE alignments(_, _, _, _)
alignments(this_current, other_current, i, n) ==
    IF ~(i < n) THEN FALSE
    ELSE IF /\ value[this_current] = value[other_current]
            /\ is_match(next_element[this_current],
                        next_element[other_current], 1, n)
    THEN TRUE
    ELSE alignments(this_current, next_element[other_current], i + 1, n)

\* (mutant: the test of the two list_size members is left out)
operator_eq_unsized(a, b) ==
    IF head[a] = NULL /\ head[b] = NULL THEN TRUE
    ELSE IF head[a] = NULL \/ head[b] = NULL THEN FALSE
    ELSE alignments(head[a], head[b], 0, list_size[a])

\* CircularLinkedList::operator==, a the object it is called on
operator_eq(a, b) ==
    IF list_size[a] # list_size[b] THEN FALSE
    ELSE IF head[a] = NULL /\ head[b] = NULL THEN TRUE
    ELSE IF head[a] = NULL \/ head[b] = NULL THEN FALSE
    ELSE alignments(head[a], head[b], 0, list_size[a])

\* CircularLinkedList::operator!=
operator_ne(a, b) == ~operator_eq(a, b)

\* ------------------------------------------------------- list operations
\* push_front on a non-empty list: the values once the new Element n has been
\* constructed with v and std::swap(head->value, new_element->value) has run
\* (mutant: the std::swap is left out)
swapped_in_noswap(r, n, v) ==
    [value EXCEPT ![n] = v]

swapped_in(r, n, v) ==
    [value EXCEPT ![n] = value[head[r]], ![head[r]] = v]

\* the links once Element n has been constructed with e's successor as its
\* next_element and e->next_element = n has run (push_front, insert_after)
\* (mutant: e->next_element = n is left out)
linked_after_unhooked(e, n) ==
    [next_element EXCEPT ![n] = next_element[e]]

linked_after(e, n) ==
    [next_element EXCEPT ![n] = next_element[e], ![e] = n]

\* the links once e->next_element = e->next_element->next_element has run
\* (pop_front, erase_after)
unlinked_after(e) ==
    [next_element EXCEPT ![e] = next_element[next_element[e]]]

\* (mutant: ++list_size is left out)
incremented_not(r) == list_size

\* ++list_size
incremented(r) == [list_size EXCEPT ![r] = @ + 1]

\* (mutant: --list_size is left out)
decremented_not(r) == list_size

\* --list_size
decremented(r) == [list_size EXCEPT ![r] = @ - 1]

\* (mutant: the new Element becomes head)
head_after_push_moved(r, n) == [head EXCEPT ![r] = n]

\* head once push_front has run on a non-empty list: it is not assigned
head_after_push(r, n) == head

\* (mutant: head->value = head->next_element->value is left out)
copied_down_not(r) == value

\* the values once pop_front has run head->value = head->next_element->value
copied_down(r) ==
    [value EXCEPT ![head[r]] = value[next_element[head[r]]]]

\* CircularLinkedList::push_front(value)
push_front(r, v) ==
    /\ ~ub
    /\ receiver' = r
    /\ \E n \in arena \ live :                       \* new Element
         /\ live' = live \cup {n}
         /\ IF head[r] = NULL
            THEN /\ value' = [value EXCEPT ![n] = v]
                 /\ next_element' = [next_element EXCEPT ![n] = n]
                 /\ head' = [head EXCEPT ![r] = n]
            ELSE /\ next_element' = linked_after(head[r], n)
                 /\ value' = swapped_in(r, n, v)
                 /\ head' = head_after_push(r, n)
    /\ list_size' = incremented(r)
    /\ op' = call("push_front", v)
    /\ err' = "ok"
    /\ ret' = NoIterator
    /\ pass' = -1
    /\ pushed' = IF pushed.ok THEN [pushed EXCEPT !.seq = <<v>> \o @]
                 ELSE pushed
    /\ calls' = [calls EXCEPT ![r] = counted_push(@)]
    /\ UNCHANGED <<arena, made, it, stale, out, ub>>

\* CircularLinkedList::pop_front()
pop_front(r) ==
    /\ ~ub
    /\ receiver' = r
    /\ IF head[r] = NULL
       THEN throws("pop_front", NULL, EmptyContainer)
       ELSE /\ IF next_element[head[r]] = head[r]
               THEN /\ value' = delete(value, {head[r]})
                    /\ next_element' = delete(next_element, {head[r]})
                    /\ live' = live \ {head[r]}
                    /\ stale' = stale_after({head[r]})
                    /\ head' = [head EXCEPT ![r] = NULL]
               ELSE LET to_pop == next_element[head[r]]
                    IN  /\ value' = delete(copied_down(r), {to_pop})
                        /\ next_element' = delete(unlinked_after(head[r]),
                                                  {to_pop})
                        /\ live' = live \ {to_pop}
                        /\ stale' = stale_after({to_pop})
                        /\ head' = head
            /\ list_size' = decremented(r)
            /\ op' = call("pop_front", NULL)
            /\ err' = "ok"
            /\ ret' = NoIterator
            /\ pass' = -1
            /\ pushed' = NoHistory
            /\ calls' = [calls EXCEPT ![r] = counted_pop(@)]
            /\ UNCHANGED <<arena, made, it, out, ub>>

\* (mutant: the returned iterator is anchored to the new Element)
inserted_at_self_anchored(r, n) == iterator(n, n, FALSE)

\* what insert_after returns: iterator(new_element, head, false)
inserted_at(r, n) == iterator(n, head[r], FALSE)

\* (mutant: pos.isEnd is not tested)
insert_rejects_null_only(r, pos) == pos.element = NULL

\* the guard of insert_after: !pos.element || pos.isEnd
insert_rejects(r, pos) == invalid_or_end(pos)

\* CircularLinkedList::insert_after(pos, value), called with the caller's it
insert_after(r, v) ==
    /\ ~ub
    /\ receiver' = r
    /\ IF insert_rejects(r, it)
       THEN throws("insert_after", v, InvalidIterator)
       ELSE IF stale
       THEN undefined("insert_after", v)
       ELSE /\ \E n \in arena \ live :               \* new Element
                 /\ live' = live \cup {n}
                 /\ value' = [value EXCEPT ![n] = v]
                 /\ next_element' = linked_after(it.element, n)
                 /\ ret' = inserted_at(r, n)
            /\ list_size' = incremented(r)
            /\ op' = call("insert_after", v)
            /\ err' = "ok"
            /\ pass' = -1
            /\ pushed' = NoHistory
            /\ calls' = [calls EXCEPT ![r] = Uncounted]
            /\ UNCHANGED <<arena, made, head, it, stale, out, ub>>

\* (mutant: the guard only sees that pos's Element is its own successor)
erase_rejects_self(r, pos) == next_element[pos.element] = pos.element

\* the guard of erase_after, once pos.element is known to be non-null and
\* live: pos.element->next_element == head
erase_rejects(r, pos) == next_element[pos.element] = head[r]

\* (mutant: the iterator returned is past-end when it is back at head)
erased_to_end(r, pos, after) == iterator(after, head[r], after = head[r])

\* (mutant: the iterator returned is pos itself)
erased_to_pos(r, pos, after) == iterator(pos.element, head[r], FALSE)

\* what erase_after returns, after being pos's successor once the erased
\* Element is unlinked: iterator(pos.element->next_element, head, false)
erased_to(r, pos, after) == iterator(after, head[r], FALSE)

\* CircularLinkedList::erase_after(pos), called with the caller's it
erase_after(r) ==
    /\ ~ub
    /\ receiver' = r
    /\ IF it.element = NULL
       THEN throws("erase_after", NULL, InvalidIterator)
       ELSE IF stale
       THEN undefined("erase_after", NULL)
       ELSE IF erase_rejects(r, it)
       THEN throws("erase_after", NULL, InvalidIterator)
       ELSE LET to_erase == next_element[it.element]
                after == next_element[to_erase]
            IN  /\ value' = delete(value, {to_erase})
                /\ next_element' = delete(unlinked_after(it.element),
                                          {to_erase})
                /\ live' = live \ {to_erase}
                /\ list_size' = decremented(r)
                /\ ret' = erased_to(r, it, after)
                /\ op' = call("erase_after", NULL)
                /\ err' = "ok"
                /\ pass' = -1
                /\ pushed' = NoHistory
                /\ calls' = [calls EXCEPT ![r] = Uncounted]
                /\ UNCHANGED <<arena, made, head, it, stale, out, ub>>

\* the Elements clear()'s loop deletes before it is back at head, in the
\* order of the delete statements.  The loop ends only by to_erase == head;
\* reading the link of an Element that is null or deleted is recorded as a
\* NULL entry, where the walk is cut (fuel cuts a walk that would not end).
RECURSIVE to_erase_from(_, _, _)
to_erase_from(n, h, fuel) ==
    IF n = h THEN <<>>
    ELSE IF n \notin live \/ fuel = 0 THEN <<NULL>>
    ELSE <<n>> \o to_erase_from(next_element[n], h, fuel - 1)

\* (mutant: the final delete head is left out)
deleted_by_clear_but_head(r) ==
    to_erase_from(next_element[head[r]], head[r], Cardinality(live))

\* every delete clear() runs on a non-empty list, in order: the loop's, then
\* delete head
deleted_by_clear(r) ==
    to_erase_from(next_element[head[r]], head[r], Cardinality(live))
        \o <<head[r]>>

range(f) == {f[i] : i \in DOMAIN f}

\* a run of deletes is defined when each is of a live Element, deleted once
well_deleted(ds) ==
    /\ \A i \in DOMAIN ds : ds[i] \in live
    /\ \A i, j \in DOMAIN ds : i # j => ds[i] # ds[j]

\* CircularLinkedList::clear()
clear(r) ==
    /\ ~ub
    /\ receiver' = r
    /\ IF head[r] = NULL
       THEN /\ op' = call("clear", NULL)
            /\ err' = "ok"
            /\ ret' = NoIterator
            /\ UNCHANGED <<heap, arena, made, ring, it, stale, pass, pushed, out,
                           calls, ub>>
       ELSE IF ~well_deleted(deleted_by_clear(r))
       THEN undefined("clear", NULL)
       ELSE LET d == range(deleted_by_clear(r))
            IN  /\ op' = call("clear", NULL)
                /\ err' = "ok"
                /\ ret' = NoIterator
                /\ value' = delete(value, d)
                /\ next_element' = delete(next_element, d)
                /\ live' = live \ d
                /\ stale' = stale_after(d)
                /\ head' = [head EXCEPT ![r] = NULL]
                /\ list_size' = [list_size EXCEPT ![r] = 0]
                /\ pass' = -1
                /\ pushed' = NoHistory
                /\ calls' = [calls EXCEPT ![r] = Uncounted]
                /\ UNCHANGED <<arena, made, it, out, ub>>

\* ------------------------------------------------------------- copying
\* the Elements of list r in the order the copy loops read them: head, then
\* along next_element while (other_current != other.head)
cycle(r) ==
    IF head[r] = NULL THEN <<>>
    ELSE <<head[r]>> \o to_erase_from(next_element[head[r]], head[r],
                                      Cardinality(live))

\* the ways k new Element calls in a row can be answered from the addresses in
\* free: the i-th call returns f[i]
placements(free, k) ==
    {f \in [1..k -> free] : \A i, j \in 1..k : i # j => f[i] # f[j]}

\* (mutant: the members are copied as they are, the Elements shared)
copied_shallow(a, b, d, f) ==
    [value |-> delete(value, d),
     next_element |-> delete(next_element, d),
     live |-> live \ d,
     head |-> [head EXCEPT ![a] = head[b]],
     list_size |-> [list_size EXCEPT ![a] = list_size[b]]]

\* (mutant: list_size = other.list_size is left out)
copied_unsized(a, b, d, f) ==
    LET src == cycle(b)
        k == Len(src)
        at(n) == CHOOSE i \in 1..k : f[i] = n
    IN  [value |-> [n \in arena |->
                      IF n \in range(f) THEN value[src[at(n)]]
                      ELSE IF n \in d THEN NULL ELSE value[n]],
         next_element |-> [n \in arena |->
                      IF n \in range(f) THEN f[(at(n) % k) + 1]
                      ELSE IF n \in d THEN NULL ELSE next_element[n]],
         live |-> (live \ d) \cup range(f),
         head |-> [head EXCEPT ![a] = IF k = 0 THEN NULL ELSE f[1]],
         list_size |-> [list_size EXCEPT ![a] = 0]]

\* the body shared by the copy constructor and operator=: list a, whose
\* Elements d have just been deleted (none for the constructor) and whose
\* members are head = nullptr, list_size = 0, is filled from list b; the
\* i-th new Element is at f[i], holds the i-th value of b and is linked to
\* the next one, the last to the first
copied(a, b, d, f) ==
    LET src == cycle(b)
        k == Len(src)
        at(n) == CHOOSE i \in 1..k : f[i] = n
    IN  [value |-> [n \in arena |->
                      IF n \in range(f) THEN value[src[at(n)]]
                      ELSE IF n \in d THEN NULL ELSE value[n]],
         next_element |-> [n \in arena |->
                      IF n \in range(f) THEN f[(at(n) % k) + 1]
                      ELSE IF n \in d THEN NULL ELSE next_element[n]],
         live |-> (live \ d) \cup range(f),
         head |-> [head EXCEPT ![a] = IF k = 0 THEN NULL ELSE f[1]],
         list_size |-> [list_size EXCEPT
                          ![a] = IF head[b] = NULL THEN 0 ELSE list_size[b]]]

\* the copy loop reads b's Elements: each must be live, and none among the
\* Elements d deleted just before
readable(b, d) ==
    \A i \in DOMAIN cycle(b) : cycle(b)[i] \in live \ d

\* CircularLinkedList(const CircularLinkedList& other): a constructed from b
copy_construct(a, b) ==
    /\ ~ub
    /\ receiver' = a
    /\ a \notin made /\ b \in made
    /\ IF ~readable(b, {})
       THEN undefined("CircularLinkedList(const&)", <<a, b>>) /\ made' = made
       ELSE /\ \E f \in placements(arena \ live, Len(cycle(b))) :
                 /\ value' = copied(a, b, {}, f).value
                 /\ next_element' = copied(a, b, {}, f).next_element
                 /\ live' = copied(a, b, {}, f).live
                 /\ head' = copied(a, b, {}, f).head
                 /\ list_size' = copied(a, b, {}, f).list_size
            /\ made' = made \cup {a}
            /\ op' = call("CircularLinkedList(const&)", <<a, b>>)
            /\ err' = "ok"
            /\ ret' = NoIterator
            /\ pass' = -1
            /\ pushed' = NoHistory
            /\ calls' = [calls EXCEPT ![a] = Uncounted]
            /\ UNCHANGED <<arena, it, stale, out, ub>>

\* CircularLinkedList::operator=(const CircularLinkedList& other): a = b
copy_assign(a, b) ==
    /\ ~ub
    /\ receiver' = a
    /\ a \in made /\ b \in made
    /\ IF a = b                                   \* this == &other
       THEN /\ op' = call("CircularLinkedList::operator=", <<a, b>>)
            /\ err' = "ok"
            /\ ret' = NoIterator
            /\ UNCHANGED <<heap, arena, made, ring, it, stale, pass, pushed,
                           out, calls, ub>>
       ELSE LET ds == IF head[a] = NULL THEN <<>> ELSE deleted_by_clear(a)
                d == range(ds)
            IN  IF ~well_deleted(ds) \/ ~readable(b, d)
                THEN undefined("CircularLinkedList::operator=", <<a, b>>)
                ELSE /\ \E f \in placements((arena \ live) \cup d,
                                           Len(cycle(b))) :
                          /\ value' = copied(a, b, d, f).value
                          /\ next_element' = copied(a, b, d, f).next_element
                          /\ live' = copied(a, b, d, f).live
                          /\ head' = copied(a, b, d, f).head
                          /\ list_size' = copied(a, b, d, f).list_size
                     /\ stale' = stale_after(d)
                     /\ op' = call("CircularLinkedList::operator=", <<a, b>>)
                     /\ err' = "ok"
                     /\ ret' = NoIterator
                     /\ pass' = -1
                     /\ pushed' = NoHistory
                     /\ calls' = [calls EXCEPT ![a] = Uncounted]
                     /\ UNCHANGED <<arena, made, it, out, ub>>

\* ---------------------------------------------------- iterator operations
\* it = list.begin()
Begin(r) ==
    /\ ~ub
    /\ receiver' = r
    /\ it' = begin(r)
    /\ stale' = FALSE
    /\ pass' = 0
    /\ op' = call("begin", NULL)
    /\ err' = "ok"
    /\ ret' = NoIterator
    /\ UNCHANGED <<heap, arena, made, ring, pushed, out, calls, ub>>

\* it = list.end()
End(r) ==
    /\ ~ub
    /\ receiver' = r
    /\ it' = end(r)
    /\ stale' = FALSE
    /\ pass' = -1
    /\ op' = call("end", NULL)
    /\ err' = "ok"
    /\ ret' = NoIterator
    /\ UNCHANGED <<heap, arena, made, ring, pushed, out, calls, ub>>

\* it = <the iterator insert_after or erase_after has just returned>
Assign ==
    /\ ~ub
    /\ UNCHANGED receiver
    /\ op.name \in {"insert_after", "erase_after"} /\ err = "ok"
    /\ it' = ret
    /\ stale' = FALSE
    /\ pass' = -1
    /\ op' = call("operator=", NULL)
    /\ err' = "ok"
    /\ ret' = NoIterator
    /\ UNCHANGED <<heap, arena, made, ring, pushed, out, calls, ub>>

\* ++it (iterator::operator++)
Increment ==
    /\ ~ub
    /\ UNCHANGED receiver
    /\ IF invalid_or_end(it)
       THEN throws("operator++", NULL, InvalidAdvance)
       ELSE IF stale
       THEN undefined("operator++", NULL)
       ELSE /\ it' = increment(it)
            /\ pass' = IF pass >= 0 THEN pass + 1 ELSE pass
            /\ op' = call("operator++", NULL)
            /\ err' = "ok"
            /\ ret' = NoIterator
            /\ UNCHANGED <<heap, arena, made, ring, stale, pushed, out, calls, ub>>

\* ------------------------------------------------------ the specification
\* CircularLinkedList(): head(nullptr), list_size(0); nothing allocated
Init ==
    /\ value = [n \in Nodes |-> NULL]
    /\ next_element = [n \in Nodes |-> NULL]
    /\ live = {}
    /\ arena = Nodes
    /\ made = Rings
    /\ head = [r \in Rings |-> NULL]
    /\ list_size = [r \in Rings |-> 0]
    /\ it = NoIterator
    /\ stale = FALSE
    /\ ret = NoIterator
    /\ op = call("CircularLinkedList", NULL)
    /\ receiver = "this"
    /\ err = "ok"
    /\ pass = -1
    /\ pushed = [ok |-> TRUE, seq |-> <<>>]
    /\ out = FALSE
    /\ calls = [r \in Rings |-> Uncounted]
    /\ ub = FALSE

Next ==
    \/ \E v \in Values : push_front("this", v)
    \/ pop_front("this")
    \/ \E v \in Values : insert_after("this", v)
    \/ erase_after("this")
    \/ clear("this")
    \/ Begin("this")
    \/ End("this")
    \/ Assign
    \/ Increment

Spec == Init /\ [][Next]_vars

\* --------------------------------------- the specification of operator==
EqNodes == 1..(2 * MaxLen)
EqValues == 1..MaxEqVal
Lists == UNION {[1..k -> EqValues] : k \in 0..MaxLen}

\* two lists built apart in the heap: s at addresses 1..Len(s), t at
\* addresses MaxLen+1..MaxLen+Len(t), each closed into a cycle
built(s, t) ==
    LET at(n) == IF n <= MaxLen THEN [l |-> s, k |-> n]
                 ELSE [l |-> t, k |-> n - MaxLen]
        base(n) == IF n <= MaxLen THEN 0 ELSE MaxLen
        used(n) == at(n).k <= Len(at(n).l)
    IN  [value |-> [n \in EqNodes |->
                      IF used(n) THEN at(n).l[at(n).k] ELSE NULL],
         next_element |-> [n \in EqNodes |->
                      IF ~used(n) THEN NULL
                      ELSE IF at(n).k = Len(at(n).l) THEN base(n) + 1
                      ELSE n + 1],
         live |-> {n \in EqNodes : used(n)},
         head |-> [r \in Rings |->
                      IF r = "this"
                      THEN (IF s = <<>> THEN NULL ELSE 1)
                      ELSE (IF t = <<>> THEN NULL ELSE MaxLen + 1)],
         list_size |-> [r \in Rings |->
                      IF r = "this" THEN Len(s) ELSE Len(t)]]

InitEq ==
    /\ \E s \in Lists, t \in Lists :
         /\ value = built(s, t).value
         /\ next_element = built(s, t).next_element
         /\ live = built(s, t).live
         /\ arena = EqNodes
         /\ made = Rings
         /\ head = built(s, t).head
         /\ list_size = built(s, t).list_size
    /\ it = NoIterator
    /\ stale = FALSE
    /\ ret = NoIterator
    /\ op = call("CircularLinkedList", <<>>)
    /\ receiver = "this"
    /\ err = "ok"
    /\ pass = -1
    /\ pushed = NoHistory
    /\ out = FALSE
    /\ calls = [r \in Rings |-> Uncounted]
    /\ ub = FALSE

\* a == b
Equal(a, b) ==
    /\ out' = operator_eq(a, b)
    /\ op' = call("operator==", <<a, b>>)
    /\ receiver' = a
    /\ UNCHANGED <<heap, arena, made, ring, it, stale, ret, err, pass, pushed,
                   calls, ub>>

\* a != b
NotEqual(a, b) ==
    /\ out' = operator_ne(a, b)
    /\ op' = call("operator!=", <<a, b>>)
    /\ receiver' = a
    /\ UNCHANGED <<heap, arena, made, ring, it, stale, ret, err, pass, pushed,
                   calls, ub>>

NextEq ==
    \/ \E a \in Rings, b \in Rings : Equal(a, b)
    \/ \E a \in Rings, b \in Rings : NotEqual(a, b)

SpecEq == InitEq /\ [][NextEq]_vars

\* ------------------------------------------- the specification of copies
CopyNodes == 1..(MaxNodes + 1)

\* the Elements of list r
elements(r) == range(path(head[r], list_size[r]))

\* the caller passes list r an iterator it got from r's begin() (or one that
\* references no Element, or a dangling one)
own(r) == it.element = NULL \/ stale \/ it.element \in elements(r)

\* "this" default-constructed; "other" is yet to be constructed, as a copy
InitCopy ==
    /\ value = [n \in CopyNodes |-> NULL]
    /\ next_element = [n \in CopyNodes |-> NULL]
    /\ live = {}
    /\ arena = CopyNodes
    /\ made = {"this"}
    /\ head = [r \in Rings |-> NULL]
    /\ list_size = [r \in Rings |-> 0]
    /\ it = NoIterator
    /\ stale = FALSE
    /\ ret = NoIterator
    /\ op = call("CircularLinkedList", NULL)
    /\ receiver = "this"
    /\ err = "ok"
    /\ pass = -1
    /\ pushed = NoHistory
    /\ out = FALSE
    /\ calls = [r \in Rings |-> Uncounted]
    /\ ub = FALSE

NextCopy ==
    \/ \E a \in Rings, b \in Rings : copy_construct(a, b)
    \/ \E a \in Rings, b \in Rings : copy_assign(a, b)
    \/ \E r \in made, v \in Values : push_front(r, v)
    \/ \E r \in made : pop_front(r)
    \/ \E r \in made, v \in Values : own(r) /\ insert_after(r, v)
    \/ \E r \in made : own(r) /\ erase_after(r)
    \/ \E r \in made : clear(r)
    \/ \E r \in made : Begin(r)

SpecCopy == InitCopy /\ [][NextCopy]_vars

\* ------------------------------- the specification of counted push and pop
\* a default-constructed list whose successful push_front and pop_front calls
\* are counted
InitCount ==
    /\ value = [n \in Nodes |-> NULL]
    /\ next_element = [n \in Nodes |-> NULL]
    /\ live = {}
    /\ arena = Nodes
    /\ made = Rings
    /\ head = [r \in Rings |-> NULL]
    /\ list_size = [r \in Rings |-> 0]
    /\ it = NoIterator
    /\ stale = FALSE
    /\ ret = NoIterator
    /\ op = call("CircularLinkedList", NULL)
    /\ receiver = "this"
    /\ err = "ok"
    /\ pass = -1
    /\ pushed = [ok |-> TRUE, seq |-> <<>>]
    /\ out = FALSE
    /\ calls = [r \in Rings |->
                  IF r = "this" THEN [on |-> TRUE, pushes |-> 0, pops |-> 0]
                  ELSE Uncounted]
    /\ ub = FALSE

\* push_front and pop_front only, at most MaxCalls pushes
NextCount ==
    \/ \E v \in Values :
          calls["this"].pushes < MaxCalls /\ push_front("this", v)
    \/ pop_front("this")

SpecCount == InitCount /\ [][NextCount]_vars

\* ================================================================ claims
ok(seq) == [err |-> "ok", seq |-> seq]

\* C1: after any run of push_front calls on a list constructed empty,
\* front() is the value pushed last and the begin()-to-end() loop collects
\* the pushed values newest first; and every push_front(v) on a list whose
\* iteration sequence is s leaves the iteration sequence <v> followed by s.
C1_PushFrontPrepends ==
    /\ [](pushed.ok /\ pushed.seq # <<>> =>
            /\ front("this") = [err |-> "ok", val |-> pushed.seq[1]]
            /\ traverse("this") = ok(pushed.seq))
    /\ [][op'.name = "push_front" =>
            /\ front("this")' = [err |-> "ok", val |-> op'.arg]
            /\ traverse("this")' = ok(<<op'.arg>> \o contents("this"))]_vars

C1_Witness ==
    /\ op.name = "push_front"
    /\ pushed.ok
    /\ Len(pushed.seq) = 3
    /\ pushed.seq[1] # pushed.seq[3]

\* the sequence s read from its k-th position on, cyclically
rotated(s, k) == [i \in 1..Len(s) |-> s[((i - 1 + k) % Len(s)) + 1]]

is_rotation(s, t) ==
    /\ Len(s) = Len(t)
    /\ s = <<>> \/ \E k \in 0..(Len(s) - 1) : t = rotated(s, k)

\* C2: a == b returns true exactly when the two lists have equal size and
\* b's value sequence read from its head is a cyclic rotation of a's; two
\* empty lists are equal and an empty list equals no non-empty one;
\* [1,2,3] == [2,3,1] and [1,2,3] # [3,2,1].
C2_EqualIffRotation ==
    op.name = "operator==" =>
        LET a == op.arg[1]
            b == op.arg[2]
        IN  /\ out = (/\ size(a) = size(b)
                      /\ is_rotation(sequence(a), sequence(b)))
            /\ empty(a) /\ empty(b) => out
            /\ empty(a) # empty(b) => ~out
            /\ sequence(a) = <<1, 2, 3>> /\ sequence(b) = <<2, 3, 1>> => out
            /\ sequence(a) = <<1, 2, 3>> /\ sequence(b) = <<3, 2, 1>> => ~out

C2_Witness ==
    /\ op = call("operator==", <<"this", "other">>)
    /\ sequence("this") = <<1, 2, 3>>
    /\ sequence("other") = <<2, 3, 1>>
    /\ out

\* C3: whatever calls have been made with iterators that reference live
\* Elements, a non-empty list is a simple cycle: list_size links from head
\* lead back to head, no fewer do, the list_size Elements on the way are
\* distinct and live, and none of their links is null.
C3_SimpleCycle ==
    ~ub => \A r \in Rings :
        head[r] # NULL =>
            LET p == path(head[r], list_size[r])
            IN  /\ list_size[r] >= 1
                /\ Len(p) = list_size[r]
                /\ \A i \in 1..Len(p) : p[i] \in live /\ next_element[p[i]] # NULL
                /\ \A i, j \in 1..Len(p) : i # j => p[i] # p[j]
                /\ \A i \in 2..Len(p) : p[i] # head[r]
                /\ next_element[p[Len(p)]] = head[r]

C3_Witness ==
    /\ op.name = "erase_after"
    /\ err = "ok"
    /\ list_size["this"] = 2
    /\ next_element[next_element[head["this"]]] = head["this"]

\* C4: in every reachable state size() is 0 exactly when head is null, and
\* empty() is true exactly when size() is 0.
C4_EmptyIffSizeZero ==
    \A r \in Rings :
        /\ (list_size[r] = 0) <=> (head[r] = NULL)
        /\ empty(r) <=> (size(r) = 0)

C4_Witness ==
    /\ op.name = "pop_front"
    /\ err = "ok"
    /\ empty("this")
    /\ size("this") = 0

\* C5: on a list of n >= 1 Elements that is not mutated meanwhile, the
\* iterator from begin() equals end() after exactly n ++ calls and after no
\* fewer; one more ++ throws InvalidAdvance and leaves the iterator as it was.
C5_PassReachesEnd ==
    /\ [](pass >= 0 /\ size("this") >= 1 =>
            /\ pass <= size("this")
            /\ (pass = size("this")) <=> iterator_eq(it, end("this")))
    /\ [][/\ op'.name = "operator++"
          /\ size("this") >= 1
          /\ pass = size("this")
          => /\ err' = InvalidAdvance
             /\ it' = it]_vars

C5_Witness ==
    /\ op.name = "operator++"
    /\ err = InvalidAdvance
    /\ pass = 3
    /\ size("this") = 3

\* C6: on an empty list begin() == end(), so the begin()-to-end() loop runs
\* zero times and throws nothing.  (The code compares isEnd too, and the two
\* iterators differ in it.)
C6_EmptyBeginIsEnd ==
    empty("this") =>
        /\ iterator_eq(begin("this"), end("this"))
        /\ traverse("this") = ok(<<>>)

\* C7: erase_after called with a past-end iterator throws InvalidIterator
\* and removes no Element.  (The code never tests pos.isEnd.)
C7_EraseAfterPastEndFails ==
    [][/\ op'.name = "erase_after"
       /\ it.isEnd
       /\ ~stale
       => /\ err' = InvalidIterator
          /\ UNCHANGED <<heap, ring>>]_vars

\* C8: erase_after(pos) throws InvalidIterator and changes neither head,
\* list_size, links nor values whenever pos references no Element or the
\* Element after pos's is head; so no erase_after call deletes the head
\* Element, and every erase_after on a one-Element list throws.
C8_EraseAfterSparesHead ==
    [][op'.name = "erase_after" /\ ~ub' =>
          /\ (it.element = NULL \/ next_element[it.element] = head["this"])
                => err' = InvalidIterator /\ UNCHANGED <<heap, ring>>
          /\ head' = head
          /\ head["this"] # NULL => head["this"] \in live'
          /\ size("this") = 1 => err' = InvalidIterator]_vars

C8_Witness ==
    /\ op.name = "erase_after"
    /\ err = InvalidIterator
    /\ ~ub /\ ~stale
    /\ size("this") >= 2
    /\ it.element # NULL
    /\ it.element # head["this"]
    /\ next_element[it.element] = head["this"]

\* where Element n stands in list r, head standing first
index_of(r, n) ==
    LET p == path(head[r], list_size[r])
    IN  CHOOSE i \in 1..Len(p) : p[i] = n

removed_at(s, k) == SubSeq(s, 1, k - 1) \o SubSeq(s, k + 1, Len(s))

inserted_behind(s, k, v) == SubSeq(s, 1, k) \o <<v>> \o SubSeq(s, k + 1, Len(s))

\* C9: a successful erase_after(pos) deletes the Element that followed pos's
\* and no other: list_size drops by one, the iteration sequence is the old
\* one without that element, the others in their old order, and the
\* iterator returned references the Element that now follows pos's.
C9_EraseAfterRemovesSuccessor ==
    [][op'.name = "erase_after" /\ err' = "ok" /\ ~ub' =>
          LET gone == next_element[it.element]
          IN  /\ live' = live \ {gone}
              /\ gone \in live
              /\ list_size' = [list_size EXCEPT !["this"] = @ - 1]
              /\ traverse("this")' =
                    ok(removed_at(contents("this"), index_of("this", gone)))
              /\ ret'.element = next_element'[it.element]
              /\ ret'.element = next_element[gone]
              /\ head' = head]_vars

C9_Witness ==
    /\ op.name = "erase_after"
    /\ err = "ok"
    /\ ~ub
    /\ size("this") = 2
    /\ it.element = head["this"]
    /\ value[head["this"]] # value[ret.element]

\* C10: a successful insert_after(pos, v) links one new Element holding v
\* right after pos's: list_size grows by one, the iteration sequence is the
\* old one with v put directly after pos's element, head is unchanged, and
\* the iterator returned is not past-end, is anchored to the current head
\* and dereferences to v.
C10_InsertAfterLinksBehind ==
    [][op'.name = "insert_after" /\ err' = "ok" /\ ~ub' =>
          /\ list_size' = [list_size EXCEPT !["this"] = @ + 1]
          /\ traverse("this")' =
                ok(inserted_behind(contents("this"),
                                   index_of("this", it.element), op'.arg))
          /\ head' = head
          /\ ret'.element \notin live
          /\ live' = live \cup {ret'.element}
          /\ next_element'[it.element] = ret'.element
          /\ ~ret'.isEnd
          /\ ret'.head_ptr = head'["this"]
          /\ deref(ret)' = [err |-> "ok", val |-> op'.arg]]_vars

C10_Witness ==
    /\ op = call("insert_after", 2)
    /\ err = "ok"
    /\ ~ub
    /\ size("this") = 2
    /\ contents("this") = <<1, 2>>
    /\ it = begin("this")

\* C11: insert_after(pos, v) throws InvalidIterator whenever pos is past-end
\* or references no Element, hence always on an empty list, and a call that
\* throws changes nothing: head, list_size, links, values and the set of
\* Elements stay as they were.
C11_InsertAfterRejects ==
    [][op'.name = "insert_after" /\ ~ub' =>
          /\ (it.element = NULL \/ it.isEnd) =>
                err' = InvalidIterator /\ UNCHANGED <<heap, ring>>
          /\ empty("this") => err' = InvalidIterator
          /\ err' # "ok" => err' = InvalidIterator /\ UNCHANGED <<heap, ring>>]_vars

C11_Witness ==
    /\ op.name = "insert_after"
    /\ err = InvalidIterator
    /\ ~ub /\ ~stale
    /\ it = end("this")
    /\ size("this") = 2

\* C12: pop_front and front on an empty list throw EmptyContainer and leave
\* it empty with list_size 0; pop_front on a list of one Element deletes that
\* Element and leaves head null and list_size 0.
C12_EmptyAndLastPop ==
    /\ [](empty("this") =>
            front("this").err = EmptyContainer /\ size("this") = 0)
    /\ [][op'.name = "pop_front" =>
            /\ empty("this") =>
                  /\ err' = EmptyContainer
                  /\ UNCHANGED <<heap, ring>>
                  /\ size("this")' = 0 /\ empty("this")'
                  /\ front("this")'.err = EmptyContainer
            /\ size("this") = 1 =>
                  /\ err' = "ok"
                  /\ head["this"] \in live
                  /\ live' = live \ {head["this"]}
                  /\ head'["this"] = NULL
                  /\ size("this")' = 0]_vars

C12_Witness ==
    /\ op.name = "pop_front"
    /\ err = EmptyContainer
    /\ empty("this")
    /\ size("this") = 0
    /\ ~pushed.ok

\* ---------------------------------------------------------------------------
mutators == {"push_front", "pop_front", "insert_after", "erase_after", "clear"}

\* list q is as it was: its members, its Elements, what they hold and link
\* to (all an iteration reads), and so the value sequence read from its head
untouched(q) ==
    /\ head'[q] = head[q]
    /\ list_size'[q] = list_size[q]
    /\ size(q)' = size(q)
    /\ elements(q)' = elements(q)
    /\ elements(q) \subseteq live'
    /\ \A n \in elements(q) :
          value'[n] = value[n] /\ next_element'[n] = next_element[n]
    /\ sequence(q)' = sequence(q)

\* C13: once "other" exists (it is only ever made as a copy) the two lists
\* share no Element, and no push_front, pop_front, insert_after, erase_after
\* or clear on one of them changes the size, the head or the iteration
\* sequence of the other one.  (insert_after and erase_after are called with
\* an iterator of the list they are called on: see own.)
C13_CopyIsIndependent ==
    /\ [](made = Rings /\ ~ub =>
            elements("this") \cap elements("other") = {})
    /\ [][made = Rings /\ op'.name \in mutators =>
            \A q \in Rings \ {receiver'} : untouched(q)]_vars

C13_Witness ==
    /\ made = Rings
    /\ op.name = "erase_after"
    /\ receiver = "other"
    /\ err = "ok"
    /\ ~ub
    /\ size("this") + size("other") = 3
    /\ ~empty("this")
    /\ ~empty("other")

\* ---------------------------------------------------------------------------
\* list r's Elements are live and form one cycle of list_size[r] links
simple_cycle(r) ==
    IF head[r] = NULL THEN list_size[r] = 0
    ELSE LET p == path(head[r], list_size[r])
         IN  /\ list_size[r] >= 1
             /\ Len(p) = list_size[r]
             /\ \A i \in 1..Len(p) : p[i] \in live
             /\ \A i, j \in 1..Len(p) : i # j => p[i] # p[j]
             /\ next_element[p[Len(p)]] = head[r]

\* lists a and b read the same: size, front and iteration sequence
same(a, b) ==
    /\ size(a) = size(b)
    /\ empty(a) <=> empty(b)
    /\ front(a) = front(b)
    /\ sequence(a) = sequence(b)
    /\ contents(a) = contents(b)
    /\ traverse(a) = traverse(b)

\* C14: the copy constructor and operator= leave the destination a with the
\* size, the front and the iteration sequence of the source b, on Elements
\* created by the call that form a simple cycle, the source as it was;
\* operator= deletes every Element the destination had before; a = a changes
\* nothing.
C14_CopyIsDeep ==
    [][\A a, b \in Rings :
         /\ op'.name = "CircularLinkedList(const&)" /\ op'.arg = <<a, b>> =>
              /\ ~ub'
              /\ made' = made \cup {a}
              /\ same(a, b)'
              /\ simple_cycle(a)'
              /\ untouched(b)
              /\ elements(a)' \cap live = {}
              /\ live' = live \cup elements(a)'
         /\ op'.name = "CircularLinkedList::operator=" /\ op'.arg = <<a, b>> =>
              /\ ~ub'
              /\ made' = made
              /\ a = b => UNCHANGED <<heap, ring>>
              /\ a # b =>
                   /\ same(a, b)'
                   /\ simple_cycle(a)'
                   /\ untouched(b)
                   /\ elements(a)' \cap (live \ elements(a)) = {}
                   /\ live' = (live \ elements(a)) \cup elements(a)'
                   /\ Cardinality(live') =
                        Cardinality(live) - size(a) + size(b)]_vars

C14_Witness ==
    /\ op = call("CircularLinkedList::operator=", <<"this", "other">>)
    /\ ~ub
    /\ contents("this") = <<2, 1>>
    /\ contents("other") = <<2, 1>>
    /\ elements("this") \cap elements("other") = {}

\* ---------------------------------------------------------------------------
\* C15: clear() ends with head null, size() 0 and empty() true; on a list
\* with Elements its loop stops when it is back at head, and it deletes each
\* Element of the list exactly once, head last, and nothing else; on an
\* empty list it changes nothing.
C15_ClearDeletesAll ==
    [][op'.name = "clear" =>
          LET ds == deleted_by_clear("this")
          IN  /\ ~ub'
              /\ err' = "ok"
              /\ head'["this"] = NULL
              /\ size("this")' = 0
              /\ empty("this")'
              /\ empty("this") => UNCHANGED <<heap, ring>>
              /\ ~empty("this") =>
                   /\ Len(ds) = size("this")
                   /\ \A i \in DOMAIN ds : ds[i] \in live
                   /\ \A i, j \in DOMAIN ds : i # j => ds[i] # ds[j]
                   /\ ds[Len(ds)] = head["this"]
                   /\ range(ds) = elements("this")
                   /\ live' = live \ range(ds)
                   /\ elements("this")' = {}]_vars

C15_Witness ==
    /\ op.name = "clear"
    /\ err = "ok"
    /\ ~ub
    /\ empty("this")
    /\ live = {}
    /\ stale
    /\ it.element # NULL
    /\ it.head_ptr # it.element

\* ---------------------------------------------------------------------------
\* C16: on a list that started empty and has seen only push_front and
\* pop_front, n and m being the numbers of push_front and pop_front calls
\* that succeeded, m <= n and size() = n - m.
C16_SizeIsPushesLessPops ==
    calls["this"].on =>
        /\ calls["this"].pops <= calls["this"].pushes
        /\ size("this") = calls["this"].pushes - calls["this"].pops

C16_Witness ==
    /\ calls["this"] = [on |-> TRUE, pushes |-> 4, pops |-> 3]
    /\ op.name = "pop_front"
    /\ err = "ok"
    /\ size("this") = 1

\* ---------------------------------------------------------------------------
\* C17: pop_front on a list of two or more Elements that reads x0, x1, ...
\* leaves it reading x1, ..., one shorter: head is the same Element and now
\* holds x1, and the Element that followed head is unlinked and deleted, it
\* alone.  So pop_front right after push_front(v) gives back the sequence
\* and the size of before the push.
C17_PopFrontDropsFirst ==
    /\ [][op'.name = "pop_front" /\ size("this") >= 2 =>
            LET to_pop == next_element[head["this"]]
            IN  /\ err' = "ok"
                /\ ~ub'
                /\ traverse("this")' = ok(Tail(contents("this")))
                /\ sequence("this")' = Tail(sequence("this"))
                /\ size("this")' = size("this") - 1
                /\ head'["this"] = head["this"]
                /\ head["this"] \in live'
                /\ value'[head["this"]] = contents("this")[2]
                /\ to_pop # head["this"]
                /\ live' = live \ {to_pop}
                /\ next_element'[head["this"]] = next_element[to_pop]
                /\ elements("this")' = elements("this") \ {to_pop}]_vars
    /\ [][op.name = "push_front" /\ op'.name = "pop_front" =>
            /\ err' = "ok"
            /\ contents("this") = <<op.arg>> \o contents("this")'
            /\ size("this")' = size("this") - 1
            /\ pushed.ok =>
                 /\ contents("this") = pushed.seq
                 /\ contents("this")' = Tail(pushed.seq)]_vars

C17_Witness ==
    /\ op.name = "pop_front"
    /\ err = "ok"
    /\ ~ub
    /\ size("this") = 2
    /\ contents("this") = <<1, 2>>

\* ---------------------------------------------------------------------------
\* C18: a push_front or pop_front call on a list that has Elements before
\* and after it leaves head pointing to the same Element, which stays alive
\* (what it holds is what changes); and whatever is called, the Element head
\* points to is deleted only by clear() or by pop_front on a list of one
\* Element, the list being empty afterwards.
C18_HeadStaysPut ==
    /\ [][/\ op'.name \in {"push_front", "pop_front"}
          /\ ~empty("this")
          /\ ~empty("this")'
          => /\ head'["this"] = head["this"]
             /\ head["this"] \in live'
             /\ begin("this")' = begin("this")
             /\ front("this")'.val = IF op'.name = "push_front"
                                     THEN op'.arg
                                     ELSE contents("this")[2]]_vars
    /\ [][~empty("this") /\ head["this"] \in live /\ head["this"] \notin live'
          => /\ empty("this")'
             /\ size("this")' = 0
             /\ \/ op'.name = "clear"
                \/ op'.name = "pop_front" /\ size("this") = 1]_vars

C18_Witness ==
    /\ op.name = "push_front"
    /\ err = "ok"
    /\ ~ub
    /\ size("this") = 3
    /\ ~pushed.ok
    /\ front("this").val = 2
    /\ value[next_element[head["this"]]] = 1

\* ---------------------------------------------------------------------------
\* the caller's iterator references an Element of the list, is not past-end
\* and is anchored at the list's head
positioned ==
    /\ ~ub
    /\ ~stale
    /\ it.element \in elements("this")
    /\ ~it.isEnd
    /\ it.head_ptr = head["this"]

\* C19: from an iterator on the k-th of the list's n Elements, anchored at
\* head and not past-end, j calls of ++ with nothing else between lead to the
\* (k+j)-th Element for j <= n - k, and call n - k + 1 (at most the n-th)
\* makes it past-end, equal to end(); a past-end iterator can be neither
\* dereferenced nor advanced, and ++ leaves it past-end.
C19_PastEndIsTerminal ==
    /\ [](positioned =>
            LET p == path(head["this"], size("this"))
                n == size("this")
                k == index_of("this", it.element)
            IN  /\ \A j \in 0..(n - k) :
                      advanced(it, j) =
                          [err |-> "ok",
                           it |-> iterator(p[k + j], head["this"], FALSE)]
                /\ \A i, j \in k..n : i # j => p[i] # p[j]
                /\ n - k + 1 <= size("this")
                /\ advanced(it, n - k + 1) =
                       [err |-> "ok", it |-> end("this")]
                /\ advanced(it, n - k + 2) =
                       [err |-> InvalidAdvance, it |-> end("this")])
    /\ [](it.isEnd =>
            /\ deref(it).err = InvalidDereference
            /\ advanced(it, 1) = [err |-> InvalidAdvance, it |-> it])
    /\ [][op'.name = "operator++" /\ it.isEnd =>
            /\ err' = InvalidAdvance
            /\ it' = it
            /\ it'.isEnd]_vars

C19_Witness ==
    /\ op.name = "operator++"
    /\ err = InvalidAdvance
    /\ ~ub
    /\ ~stale
    /\ size("this") = 2
    /\ it = end("this")
    /\ pass = -1

\* ---------------------------------------------------------------------------
\* C20: the iterator a successful erase_after returns is not past-end; when
\* the Element erased was the last one (head followed it) the iterator
\* references head and is equal to begin(), not to end().
C20_EraseAfterReturnsNoEnd ==
    [][op'.name = "erase_after" /\ err' = "ok" /\ ~ub' =>
          LET to_erase == next_element[it.element]
          IN  /\ ~ret'.isEnd
              /\ ret'.element = next_element[to_erase]
              /\ next_element[to_erase] = head["this"] =>
                   /\ ret' = iterator(head["this"], head["this"], FALSE)
                   /\ head'["this"] = head["this"]
                   /\ iterator_eq(ret', begin("this")')
                   /\ ~iterator_eq(ret', end("this")')
                   /\ deref(ret)'.err = "ok"]_vars

C20_Witness ==
    /\ op.name = "erase_after"
    /\ err = "ok"
    /\ ~ub
    /\ size("this") = 2
    /\ it.element = next_element[head["this"]]
    /\ iterator_eq(ret, begin("this"))

\* ---------------------------------------------------------------------------
\* C21: for all lists a and b, a == a is true, a == b and b == a return the
\* same, and a != b returns the negation of a == b, whichever of the two is
\* the object operator== is called on (the one that stays at its head); and
\* what a call returned is what the call with the operands exchanged returns.
C21_EqualityIsSymmetric ==
    /\ \A a, b \in Rings :
         /\ operator_eq(a, a)
         /\ ~operator_ne(a, a)
         /\ operator_eq(a, b) = operator_eq(b, a)
         /\ operator_ne(a, b) = operator_ne(b, a)
         /\ operator_ne(a, b) = ~operator_eq(a, b)
    /\ op.name = "operator==" =>
         /\ out = operator_eq(op.arg[2], op.arg[1])
         /\ op.arg[1] = op.arg[2] => out
    /\ op.name = "operator!=" =>
         /\ out = ~operator_eq(op.arg[1], op.arg[2])
         /\ out = ~operator_eq(op.arg[2], op.arg[1])
         /\ op.arg[1] = op.arg[2] => ~out

C21_Witness ==
    /\ op = call("operator==", <<"other", "this">>)
    /\ out
    /\ sequence("this") = <<1, 1, 2>>
    /\ sequence("other") = <<1, 2, 1>>
    /\ operator_eq("this", "other")

====
